---- MODULE Spec2Model ----
(***************************************************************************)
(* Model of the bracket-update scripts:                                    *)
(*   scripts/append_games_to_sheet.py   incremental append with dedupe     *)
(*   scripts/overwrite_tab_from_csv.py  full-refresh overwrite             *)
(*   scripts/scrape_games.py            scoreboard paging, extraction      *)
(* A Python str is a sequence of one-character strings, so that strip()    *)
(* and lower() are computed and not assumed.  Python's None is the value   *)
(* None below, which is no sequence of characters.                         *)
(***************************************************************************)
EXTENDS Integers, Sequences, FiniteSets, TLC

VARIABLES
    script,         \* which script this run executes: "append" | "overwrite"
    sheet,          \* the tab: row -> column -> cell text (<<>> is a blank cell)
    sheet0,         \* the tab as it was when the current run started
    csv,            \* the DataFrame read from --csv: [columns, rows]
    pc,             \* position in main()
    run,            \* 1 for the first invocation, 2 for a re-run
    lookback,       \* --dedupe-lookback of each run so far (sequence, as given)
    clear_below,    \* --clear-below of the overwrite run
    last_a,         \* append: last_a
    existing_keys,  \* append: existing_keys
    csv_rows,       \* append: csv_rows
    dupes,          \* append: dupes
    calls,          \* remote spreadsheet calls issued so far, in order
    exit            \* how each finished run ended: "ok" | "error"

sheetVars == <<script, sheet, sheet0, csv, pc, run, lookback, clear_below,
               last_a, existing_keys, csv_rows, dupes, calls, exit>>

VARIABLES
    server,         \* the scoreboard: [mode, list]
    page_size,      \* fetch_scoreboard_all: page_size
    offset,         \* fetch_scoreboard_all: offset
    all_events,     \* fetch_scoreboard_all: all_events
    seen,           \* fetch_scoreboard_all: seen
    page,           \* fetch_scoreboard_all: events, the page last returned
    new,            \* fetch_scoreboard_all: new, of the page last processed
    requests,       \* offsets requested so far, in order
    fpc             \* position in fetch_scoreboard_all

fetchVars == <<server, page_size, offset, all_events, seen, page, new, requests, fpc>>

VARIABLES
    events,         \* sb_json["events"] handed to parse_completed_games
    idx,            \* number of events the generator has consumed
    games,          \* records yielded so far
    rows,           \* build_rows: rows
    ppc             \* position in scrape_one_day after the fetch

parseVars == <<events, idx, games, rows, ppc>>

vars == <<sheetVars, fetchVars, parseVars>>

----------------------------------------------------------------------------
(* Bounds of the model.                                                    *)

MaxSheetRows == 2
MaxCsvRows == 2
MaxLookback == 2
MaxClear == 2
MaxListLen == 3
MaxPageSize == 2
MaxPageLen == 2
MaxEvents == 2

SeqsUpTo(S, n) == UNION { [1..k -> S] : k \in 0..n }

Max(a, b) == IF a >= b THEN a ELSE b
Min(a, b) == IF a <= b THEN a ELSE b

\* Rows of the modelled grid: room for the prior rows, two appends, and an
\* overwrite (header + data + blanked rows).
GridRows == Max(MaxSheetRows + 2 * MaxCsvRows, MaxCsvRows + 1 + MaxClear) + 1

----------------------------------------------------------------------------
(* Python values.                                                          *)

None == <<"<None>">>

RECURSIVE LStrip(_)
LStrip(s) ==
    IF s = <<>> THEN s
    ELSE IF Head(s) = " " THEN LStrip(Tail(s)) ELSE s

RECURSIVE RStripLen(_, _)
\* Length of s[1..n] without its trailing blanks.
RStripLen(s, n) ==
    IF n = 0 THEN 0
    ELSE IF s[n] = " " THEN RStripLen(s, n - 1) ELSE n

RStrip(s) == SubSeq(s, 1, RStripLen(s, Len(s)))

\* str.strip()
Strip(s) == RStrip(LStrip(s))

LowerChar(c) ==
    CASE c = "N" -> "n"
      [] c = "A" -> "a"
      [] c = "U" -> "u"
      [] c = "L" -> "l"
      [] c = "O" -> "o"
      [] c = "E" -> "e"
      [] c = "H" -> "h"
      [] c = "X" -> "x"
      [] OTHER -> c

\* str.lower()
Lower(s) == [i \in 1..Len(s) |-> LowerChar(s[i])]

NullWords == { <<"n","a","n">>, <<"n","o","n","e">>, <<"n","u","l","l">> }

\* append_games_to_sheet.normalize
normalize(x) ==
    IF x = None THEN <<>>
    ELSE LET s == Strip(x) IN IF Lower(s) \in NullWords THEN <<>> ELSE s

RECURSIVE NormalizeFrom(_, _)
\* [normalize(v) for v in vals[i:]]
NormalizeFrom(vals, i) ==
    IF i > Len(vals) THEN <<>>
    ELSE <<normalize(vals[i])>> \o NormalizeFrom(vals, i + 1)

\* append_games_to_sheet.row_key
row_key(vals) == NormalizeFrom(vals, 1)

----------------------------------------------------------------------------
(* The spreadsheet store, as gspread presents it.                          *)

CSV_COLS == <<"date", "winner_team", "winner_score",
              "loser_team", "loser_score", "site_designation">>

NCols == Len(CSV_COLS)

\* Columns of the modelled grid: one more than A-F.
GridCols == NCols + 1

Blank == <<>>

RECURSIVE TrimLen(_, _)
\* Length of xs[1..n] without its trailing empty members.
TrimLen(xs, n) ==
    IF n = 0 THEN 0
    ELSE IF xs[n] = <<>> THEN TrimLen(xs, n - 1) ELSE n

\* The values API omits trailing blank cells of a row and trailing blank rows.
TrimTrailing(xs) == SubSeq(xs, 1, TrimLen(xs, Len(xs)))

\* ws.get(range): rows r1..r2, columns c1..c2 of the tab.
SheetGet(sh, r1, r2, c1, c2) ==
    TrimTrailing([i \in 1..(r2 - r1 + 1) |->
        TrimTrailing([j \in 1..(c2 - c1 + 1) |-> sh[r1 + i - 1][c1 + j - 1]])])

\* ws.update(range, values): the block whose top-left cell is (r1, c1).
SheetUpdate(sh, r1, c1, values) ==
    [r \in 1..GridRows |-> [c \in 1..GridCols |->
        IF /\ r >= r1 /\ r < r1 + Len(values)
           /\ c >= c1 /\ c < c1 + Len(values[r - r1 + 1])
        THEN values[r - r1 + 1][c - c1 + 1]
        ELSE sh[r][c]]]

\* ws.clear()
SheetClear(sh) == [r \in 1..GridRows |-> [c \in 1..GridCols |-> Blank]]

Call(op, n, r1, r2, c2) == [op |-> op, run |-> n, r1 |-> r1, r2 |-> r2, c2 |-> c2]

----------------------------------------------------------------------------
(* scripts/append_games_to_sheet.py                                        *)

RECURSIVE ScanColA(_, _, _)
ScanColA(col, i, last) ==
    IF i > Len(col) THEN last
    ELSE LET row == col[i]
             v == IF row # <<>> THEN row[1] ELSE Blank
         IN ScanColA(col, i + 1, IF normalize(v) # Blank THEN i ELSE last)

\* Mutant: the number of rows the column read returns.
last_row_by_length(sh) == Len(SheetGet(sh, 1, GridRows, 1, 1))

\* last_nonempty_row_in_col_a(ws)
last_nonempty_row_in_col_a(sh) == ScanColA(SheetGet(sh, 1, GridRows, 1, 1), 1, 0)

\* Position of column name c in df.columns (0 when absent).
ColumnIndex(columns, c) ==
    IF \E i \in 1..Len(columns) : columns[i] = c
    THEN CHOOSE i \in 1..Len(columns) : columns[i] = c
    ELSE 0

\* missing = [c for c in CSV_COLS if c not in df.columns]
MissingCols(columns) ==
    {CSV_COLS[k] : k \in {k \in 1..NCols : ColumnIndex(columns, CSV_COLS[k]) = 0}}

RECURSIVE SelectFrom(_, _, _)
\* The required cells of one row, by column name, from column k on.
SelectFrom(columns, row, k) ==
    IF k > NCols THEN <<>>
    ELSE <<row[ColumnIndex(columns, CSV_COLS[k])]>> \o SelectFrom(columns, row, k + 1)

RECURSIVE SelectRows(_, _)
SelectRows(df, i) ==
    IF i > Len(df.rows) THEN <<>>
    ELSE <<SelectFrom(df.columns, df.rows[i], 1)>> \o SelectRows(df, i + 1)

\* df[CSV_COLS]: each row's six required cells, by column name.
SelectCols(df) == SelectRows(df, 1)

\* (r + [""] * 6)[:6]
Pad6(r) == SubSeq(r \o [k \in 1..NCols |-> Blank], 1, NCols)

\* lookback = max(0, int(args.dedupe_lookback))
Lookback(k) == Max(0, k)

\* Mutant: a window that starts one row late.
lb_start_late(la, lb) == Max(1, la - lb + 2)

\* lb_start = max(1, last_a - lookback + 1)
lb_start(la, lb) == Max(1, la - lb + 1)

\* The rows read for the lookback window (none when last_a or lookback is 0).
ExistingRows(sh, la, lb) ==
    IF la > 0 /\ lb > 0
    THEN SheetGet(sh, lb_start(la, lb), la, 1, NCols)
    ELSE <<>>

ExistingKeys(sh, la, lb) ==
    LET rs == ExistingRows(sh, la, lb)
    IN {row_key(Pad6(rs[i])) : i \in 1..Len(rs)}

RECURSIVE FilterRowsAmongThemselves(_, _, _, _)
\* Mutant: a kept row's key joins the keys, so its equal sibling is dropped.
FilterRowsAmongThemselves(rs, keys, kept, nd) ==
    IF rs = <<>> THEN <<kept, nd>>
    ELSE LET vals == NormalizeFrom(Head(rs), 1)
         IN IF row_key(vals) \in keys
            THEN FilterRowsAmongThemselves(Tail(rs), keys, kept, nd + 1)
            ELSE FilterRowsAmongThemselves(Tail(rs), keys \cup {row_key(vals)},
                                           Append(kept, vals), nd)

RECURSIVE FilterRows(_, _, _, _)
\* The loop over df.iterrows(): <<csv_rows, dupes>>.
FilterRows(rs, keys, kept, nd) ==
    IF rs = <<>> THEN <<kept, nd>>
    ELSE LET vals == NormalizeFrom(Head(rs), 1)
         IN IF row_key(vals) \in keys
            THEN FilterRows(Tail(rs), keys, kept, nd + 1)
            ELSE FilterRows(Tail(rs), keys, Append(kept, vals), nd)

\* Mutant: the write starts on the last row.
start_row_on_last(la) == la

\* start_row = last_a + 1
start_row_of(la) == la + 1

\* Mutant: the tab is opened before the CSV's columns are checked.
opened_before_check(n) == <<Call("open", n, 0, 0, 0)>>

\* The remote calls main() has made when it checks the CSV's shape
\* (lines 59-66 precede get_client() and open_by_key() of lines 70-72).
calls_before_check(n) == <<>>

\* end_row = start_row + len(csv_rows) - 1
end_row_of(start_row, kept) == start_row + Len(kept) - 1

\* main(), lines 102-133: nothing to append, or write the block at start_row
\* and read it back.  res is <<csv_rows, dupes>>.
AppendWrite(n, la, lb, keys, res) ==
    /\ last_a' = la
    /\ existing_keys' = keys
    /\ csv_rows' = res[1]
    /\ dupes' = res[2]
    /\ pc' = "done"
    /\ exit' = Append(exit, "ok")
    /\ IF res[1] = <<>>
       THEN /\ sheet' = sheet
            /\ calls' = calls
                  \o <<Call("open", n, 0, 0, 0), Call("get", n, 1, GridRows, 1)>>
                  \o (IF la > 0 /\ lb > 0
                      THEN <<Call("get", n, lb_start(la, lb), la, NCols)>>
                      ELSE <<>>)
       ELSE /\ sheet' = SheetUpdate(sheet, start_row_of(la), 1, res[1])
            /\ calls' = calls
                  \o <<Call("open", n, 0, 0, 0), Call("get", n, 1, GridRows, 1)>>
                  \o (IF la > 0 /\ lb > 0
                      THEN <<Call("get", n, lb_start(la, lb), la, NCols)>>
                      ELSE <<>>)
                  \o <<Call("update", n, start_row_of(la),
                            end_row_of(start_row_of(la), res[1]), NCols),
                       Call("get", n, start_row_of(la),
                            end_row_of(start_row_of(la), res[1]), NCols)>>

\* main(), lines 77-100: the existing keys of the lookback window, then the
\* loop over the CSV rows.
AppendDedupe(n, la, lb) ==
    AppendWrite(n, la, lb, ExistingKeys(sheet, la, lb),
                FilterRows(SelectCols(csv), ExistingKeys(sheet, la, lb), <<>>, 0))

\* main(): one invocation of the append script with --dedupe-lookback k, the
\* first one or a re-run with the same CSV.
AppendMain(k) ==
    /\ script = "append"
    /\ pc = "start" \/ (pc = "done" /\ run = 1)
    /\ run' = (IF pc = "start" THEN 1 ELSE 2)
    /\ sheet0' = sheet
    /\ lookback' = Append(lookback, k)
    /\ IF csv.rows = <<>>
       \* lines 60-62: "CSV is empty. Nothing to write."
       THEN /\ pc' = "done" /\ exit' = Append(exit, "ok")
            /\ calls' = calls \o calls_before_check(IF pc = "start" THEN 1 ELSE 2)
            /\ UNCHANGED <<sheet, last_a, existing_keys, csv_rows, dupes>>
       ELSE IF MissingCols(csv.columns) # {}
       \* lines 64-66: raise RuntimeError
       THEN /\ pc' = "failed" /\ exit' = Append(exit, "error")
            /\ calls' = calls \o calls_before_check(IF pc = "start" THEN 1 ELSE 2)
            /\ UNCHANGED <<sheet, last_a, existing_keys, csv_rows, dupes>>
       \* lines 68-75: open the tab, locate the last row of column A
       ELSE AppendDedupe(IF pc = "start" THEN 1 ELSE 2,
                         last_nonempty_row_in_col_a(sheet), Lookback(k))
    /\ UNCHANGED <<script, csv, clear_below>>

----------------------------------------------------------------------------
(* scripts/overwrite_tab_from_csv.py                                       *)

\* overwrite_tab_from_csv.norm
norm(x) ==
    IF x = None THEN <<>>
    ELSE LET s == Strip(x) IN IF Lower(s) \in NullWords THEN <<>> ELSE s

Letters == <<"A","B","C","D","E","F","G","H","I","J","K","L","M",
             "N","O","P","Q","R","S","T","U","V","W","X","Y","Z">>

RECURSIVE col_letter_loop(_, _)
col_letter_loop(n, s) ==
    IF n > 0
    THEN col_letter_loop((n - 1) \div 26, <<Letters[((n - 1) % 26) + 1]>> \o s)
    ELSE s

\* col_letter(n)
col_letter(n) == col_letter_loop(n, <<>>)

RECURSIVE ColumnNumber(_)
\* The store's reading of the column letters of an A1 range.
ColumnNumber(s) ==
    IF s = <<>> THEN 0
    ELSE 26 * ColumnNumber(SubSeq(s, 1, Len(s) - 1))
         + (CHOOSE k \in 1..26 : Letters[k] = s[Len(s)])

\* A column name as the text of a header cell (written as is, never normalized).
HeaderCell(name) == <<name>>

RECURSIVE NormFrom(_, _)
\* The cells of one row from column j on, through norm.
NormFrom(row, j) ==
    IF j > Len(row) THEN <<>> ELSE <<norm(row[j])>> \o NormFrom(row, j + 1)

RECURSIVE NormRows(_, _)
\* df.applymap(norm).values.tolist(), from row i on.
NormRows(df, i) ==
    IF i > Len(df.rows) THEN <<>> ELSE <<NormFrom(df.rows[i], 1)>> \o NormRows(df, i + 1)

RECURSIVE HeaderFrom(_, _)
HeaderFrom(columns, j) ==
    IF j > Len(columns) THEN <<>>
    ELSE <<HeaderCell(columns[j])>> \o HeaderFrom(columns, j + 1)

\* values = [list(df.columns)] + df.applymap(norm).values.tolist()
OverwriteValues(df) == <<HeaderFrom(df.columns, 1)>> \o NormRows(df, 1)

\* [[""] * end_col] * clear_below
BlankBlock(end_col, n) == [i \in 1..n |-> [j \in 1..end_col |-> Blank]]

\* Mutant: the tab is not cleared before the write.
UnclearedTab(sh) == sh

\* The tab after ws.clear() (line 56).
ClearedTab(sh) == SheetClear(sh)

\* main(), lines 40-64: clear the tab, write the values from A1, blank c rows
\* below them.
OverwriteWrite(c, values, end_row, end_col, width) ==
    /\ clear_below' = c
    /\ IF c > 0
       THEN /\ sheet' = SheetUpdate(SheetUpdate(ClearedTab(sheet), 1, 1, values),
                                    end_row + 1, 1, BlankBlock(end_col, c))
            /\ calls' = calls \o <<Call("open", 1, 0, 0, 0), Call("clear", 1, 0, 0, 0),
                                   Call("update", 1, 1, end_row, width),
                                   Call("update", 1, end_row + 1, end_row + c, width)>>
       ELSE /\ sheet' = SheetUpdate(ClearedTab(sheet), 1, 1, values)
            /\ calls' = calls \o <<Call("open", 1, 0, 0, 0), Call("clear", 1, 0, 0, 0),
                                   Call("update", 1, 1, end_row, width)>>

\* main(): one invocation of the overwrite script with --clear-below c.
OverwriteMain(c) ==
    /\ script = "overwrite" /\ pc = "start"
    /\ OverwriteWrite(c, OverwriteValues(csv), Len(OverwriteValues(csv)),
                      Len(OverwriteValues(csv)[1]),
                      ColumnNumber(col_letter(Len(OverwriteValues(csv)[1]))))
    /\ pc' = "done"
    /\ exit' = Append(exit, "ok")
    /\ UNCHANGED <<script, sheet0, csv, run, lookback, last_a, existing_keys, csv_rows, dupes>>

----------------------------------------------------------------------------
(* Inputs of the sheet scripts.                                            *)

\* Rows a tab may hold before a run (columns A-G): a blank row, two game
\* rows, a row whose column A holds only a blank, a row whose column A holds
\* "nAn ".
SheetRowPalette ==
    { <<Blank, Blank, Blank, Blank, Blank, Blank, Blank>>,
      << <<"1">>, <<"x">>, <<"8">>, <<"y">>, <<"6">>, <<"H">>, Blank >>,
      << <<"2">>, <<"y">>, <<"8">>, <<"x">>, <<"6">>, <<"A">>, Blank >>,
      << <<" ">>, <<"x">>, <<"8">>, <<"y">>, <<"6">>, <<"N">>, <<"f">> >>,
      << <<"n","A","n"," ">>, Blank, Blank, Blank, Blank, Blank, Blank >> }

Sheets ==
    { [r \in 1..GridRows |-> IF r <= MaxSheetRows THEN f[r] ELSE [c \in 1..GridCols |-> Blank]]
      : f \in [1..MaxSheetRows -> SheetRowPalette] }

\* Rows a games CSV may hold (the six required columns, in order).
CsvRowPalette ==
    { << <<" ","1">>, <<"x"," ">>, <<"8">>, <<"y">>, <<"6">>, <<"H">> >>,
      << <<"3">>, <<"x">>, <<"8">>, <<"y">>, <<"6">>, <<"N","u","L","l">> >>,
      << <<" ">>, <<"x">>, <<"8">>, <<"y">>, <<"6">>, <<"N">> >> }

OddRowPalette == { << <<"1">>, <<"x">>, <<"8">>, <<"y">>, <<"6">>, <<"H">> >> }

\* CSVs with exactly the required columns.
FullCsvs == { [columns |-> CSV_COLS, rows |-> rs] : rs \in SeqsUpTo(CsvRowPalette, MaxCsvRows) }

\* Row lists of the CSVs with other columns: no row, or MaxCsvRows rows.
OddRowSeqs == [1..0 -> OddRowPalette] \cup [1..MaxCsvRows -> OddRowPalette]

\* CSVs lacking site_designation, and CSVs with a leading extra column.
OddCsvs ==
    { [columns |-> SubSeq(CSV_COLS, 1, NCols - 1),
       rows |-> [i \in 1..Len(rs) |-> SubSeq(rs[i], 1, NCols - 1)]]
      : rs \in OddRowSeqs }
    \cup
    { [columns |-> <<"location">> \o CSV_COLS,
       rows |-> [i \in 1..Len(rs) |-> << <<"g">> >> \o rs[i]]]
      : rs \in OddRowSeqs }

Csvs == FullCsvs \cup OddCsvs

SheetInit ==
    /\ script \in {"append", "overwrite"}
    /\ sheet \in Sheets
    /\ sheet0 = sheet
    /\ csv \in Csvs
    /\ pc = "start"
    /\ run = 1
    /\ lookback = <<>>
    /\ clear_below = 0
    /\ last_a = 0
    /\ existing_keys = {}
    /\ csv_rows = <<>>
    /\ dupes = 0
    /\ calls = <<>>
    /\ exit = <<>>

SheetIdle ==
    /\ script = "none" /\ sheet = <<>> /\ sheet0 = <<>> /\ csv = <<>> /\ pc = "idle"
    /\ run = 0 /\ lookback = <<>> /\ clear_below = 0 /\ last_a = 0
    /\ existing_keys = {} /\ csv_rows = <<>> /\ dupes = 0 /\ calls = <<>> /\ exit = <<>>

FetchIdle ==
    /\ server = <<>> /\ page_size = 0 /\ offset = 0 /\ all_events = <<>> /\ seen = {}
    /\ page = <<>> /\ new = 0 /\ requests = <<>> /\ fpc = "idle"

ParseIdle ==
    /\ events = <<>> /\ idx = 0 /\ games = <<>> /\ rows = <<>> /\ ppc = "idle"

Init == SheetInit /\ FetchIdle /\ ParseIdle

Next ==
    \/ (\E k \in -1..MaxLookback : AppendMain(k)) /\ UNCHANGED <<fetchVars, parseVars>>
    \/ (\E c \in -1..MaxClear : OverwriteMain(c)) /\ UNCHANGED <<fetchVars, parseVars>>

\* The sheet scripts: one append run, optionally re-run, or one overwrite run.
Spec == Init /\ [][Next]_vars

----------------------------------------------------------------------------
(* scripts/scrape_games.py: fetch_scoreboard_all                           *)

\* ev.get("id") of an event without an id.
NoId == "<None>"

\* Python truth of an identifier: None and "" are false.
Truthy(id) == id # NoId /\ id # ""

RECURSIVE TakeNewRepeated(_, _, _, _)
\* Mutant: an event is kept whether or not its id was seen.
TakeNewRepeated(evs, sn, all, n) ==
    IF evs = <<>> THEN <<all, sn, n>>
    ELSE IF Truthy(Head(evs).id)
         THEN TakeNewRepeated(Tail(evs), sn \cup {Head(evs).id}, Append(all, Head(evs)), n + 1)
         ELSE TakeNewRepeated(Tail(evs), sn, all, n)

RECURSIVE TakeNew(_, _, _, _)
\* The loop over a page's events (lines 58-64): <<all_events, seen, new>>.
TakeNew(evs, sn, all, n) ==
    IF evs = <<>> THEN <<all, sn, n>>
    ELSE IF Truthy(Head(evs).id) /\ Head(evs).id \notin sn
         THEN TakeNew(Tail(evs), sn \cup {Head(evs).id}, Append(all, Head(evs)), n + 1)
         ELSE TakeNew(Tail(evs), sn, all, n)

\* The slice [off, off + limit) of a list.
Slice(list, off, limit) == SubSeq(list, off + 1, Min(off + limit, Len(list)))

\* Mutant: the loop goes on after a short page.
StopsOnNoNew(evs, n) == n = 0

\* if new == 0 or len(events) < page_size: break
Stops(evs, n) == n = 0 \/ Len(evs) < page_size

\* One pass of the while loop (lines 41-69) over the page evs the scoreboard
\* returned; res is <<all_events, seen, new>> of the loop over its events.
FetchTaken(evs, res) ==
    /\ all_events' = res[1]
    /\ seen' = res[2]
    /\ new' = res[3]
    /\ IF Stops(evs, res[3])
       THEN fpc' = "done" /\ offset' = offset
       ELSE fpc' = "loop" /\ offset' = offset + page_size

FetchPage(evs) ==
    /\ fpc = "loop"
    /\ requests' = Append(requests, offset)
    /\ page' = evs
    /\ IF evs = <<>>
       \* if not events: break
       THEN fpc' = "done" /\ UNCHANGED <<offset, all_events, seen, new>>
       ELSE FetchTaken(evs, TakeNew(evs, seen, all_events, 0))
    /\ UNCHANGED <<server, page_size>>

\* Events a scoreboard may hold: three with an id, one whose id is absent,
\* one whose id is the empty string.
EventPalette == { [id |-> i] : i \in {"a", "b", "c", NoId, ""} }

EventLists == SeqsUpTo(EventPalette, MaxListLen)

FetchEntry ==
    /\ server \in { [mode |-> "slice", list |-> l] : l \in EventLists }
                  \cup { [mode |-> "any", list |-> <<>>] }
    /\ page_size \in 1..MaxPageSize
    /\ offset = 0
    /\ all_events = <<>>
    /\ seen = {}
    /\ page = <<>>
    /\ new = 0
    /\ requests = <<>>
    /\ fpc = "loop"

\* The scoreboard answers (offset, limit) with that slice of its fixed list.
FetchFromSlices ==
    /\ server.mode = "slice"
    /\ FetchPage(Slice(server.list, offset, page_size))

\* The scoreboard answers with any page, pages may overlap or repeat.
FetchFromAny ==
    /\ server.mode = "any"
    /\ \E evs \in SeqsUpTo(EventPalette, MaxPageLen) : FetchPage(evs)

FetchNext ==
    \/ FetchFromSlices /\ UNCHANGED <<sheetVars, parseVars>>
    \/ FetchFromAny /\ UNCHANGED <<sheetVars, parseVars>>

FetchInit == SheetIdle /\ FetchEntry /\ ParseIdle

\* One call of fetch_scoreboard_all; every request is answered.
FetchSpec == FetchInit /\ [][FetchNext]_vars /\ WF_vars(FetchNext)

\* C4: the events one fetch returns never hold two events with the same id,
\* whatever pages the scoreboard returns.
C4_NoRepeatedId ==
    \A i \in 1..Len(all_events) : \A j \in 1..Len(all_events) :
        all_events[i].id = all_events[j].id => i = j

\* C4 witness: a fetch ended on a page that repeated events of earlier pages
\* and itself held one event twice.
C4_Witness ==
    /\ fpc = "done" /\ server.mode = "any" /\ Len(requests) >= 2
    /\ Len(all_events) >= 2
    /\ \E i \in 1..Len(page) : \E j \in 1..Len(page) :
          i # j /\ page[i].id = page[j].id /\ Truthy(page[i].id)

\* The ids of the list are pairwise distinct and none is absent or empty.
DistinctIds(list) ==
    /\ \A i \in 1..Len(list) : Truthy(list[i].id)
    /\ \A i \in 1..Len(list) : \A j \in 1..Len(list) : list[i].id = list[j].id => i = j

Members(list) == {list[i] : i \in 1..Len(list)}

\* The requests so far are at offsets 0, page_size, 2 * page_size, ...
OffsetsInOrder == \A i \in 1..Len(requests) : requests[i] = (i - 1) * page_size

\* A page of the fixed list at which the paging is to stop.
StopPage(list, off) ==
    LET evs == Slice(list, off, page_size)
    IN \/ evs = <<>>
       \/ Len(evs) < page_size
       \/ \A i \in 1..Len(evs) :
             Truthy(evs[i].id) => \E q \in 1..off : list[q].id = evs[i].id

\* The fetch stopped at the first page at which it is to stop.
StoppedAtFirst(list) ==
    /\ requests # <<>>
    /\ StopPage(list, requests[Len(requests)])
    /\ \A i \in 1..(Len(requests) - 1) : ~StopPage(list, requests[i])

\* C5 as claimed, its result: against the slices of a fixed list the fetch
\* returns the complete set of events, requesting offsets 0, page_size, ...
\* and stopping at the first empty, all-seen or short page.
C5_Claim ==
    (server.mode = "slice" /\ fpc = "done") =>
        /\ Members(all_events) = Members(server.list)
        /\ OffsetsInOrder
        /\ StoppedAtFirst(server.list)

\* The state part of C5 amended.
C5_State ==
    server.mode = "slice" =>
        /\ OffsetsInOrder
        /\ offset <= Len(server.list)
        /\ fpc = "done" =>
              /\ StoppedAtFirst(server.list)
              /\ DistinctIds(server.list) => all_events = server.list

\* C5 amended: against the slices of a fixed list whose events have pairwise
\* distinct, non-empty ids, the fetch with any positive page size terminates
\* and returns the complete list; it requests offsets 0, page_size, ... and
\* stops at the first empty, all-seen or short page.
C5_Paging == []C5_State /\ (server.mode = "slice" => <>(fpc = "done"))

\* C5 witness: three events fetched in pages of one, the fourth page empty.
C5_Witness ==
    /\ server.mode = "slice" /\ fpc = "done" /\ DistinctIds(server.list)
    /\ Len(server.list) = 3 /\ page_size = 1 /\ Len(requests) = 4
    /\ all_events = server.list

----------------------------------------------------------------------------
(* scripts/scrape_games.py: parse_completed_games, build_rows              *)

\* scrape_games.clean
clean(s) ==
    IF s = None THEN <<>>
    ELSE LET t == Strip(s) IN IF Lower(t) \in NullWords THEN <<>> ELSE t

\* The separator of combine_location, one character of the text.
EmDash == "--"

\* ", ".join(parts)
RECURSIVE JoinComma(_)
JoinComma(parts) ==
    IF parts = <<>> THEN <<>>
    ELSE IF Len(parts) = 1 THEN parts[1]
    ELSE parts[1] \o <<",", " ">> \o JoinComma(Tail(parts))

\* scrape_games.combine_location; an absent venue is the empty dict, whose
\* every field is None.
combine_location(venue) ==
    LET name == clean(venue.fullName)
        city == clean(venue.city)
        state == clean(venue.state)
        place == JoinComma(SelectSeq(<<city, state>>, LAMBDA q : q # <<>>))
    IN IF name # <<>> /\ place # <<>> THEN name \o <<" ", EmDash, " ">> \o place
       ELSE IF name # <<>> THEN name ELSE place

Digits == <<"0", "1", "2", "3", "4", "5", "6", "7", "8", "9">>

IsDigit(c) == \E d \in 1..10 : Digits[d] = c

DigitVal(c) == (CHOOSE d \in 1..10 : Digits[d] = c) - 1

RECURSIVE DigitsValue(_, _, _)
\* The value of the digits of t[i..], underscores skipped, after acc.
DigitsValue(t, i, acc) ==
    IF i > Len(t) THEN acc
    ELSE IF t[i] = "_" THEN DigitsValue(t, i + 1, acc)
    ELSE DigitsValue(t, i + 1, 10 * acc + DigitVal(t[i]))

\* Digits, single underscores allowed between them.
IsDigitString(t) ==
    /\ t # <<>>
    /\ IsDigit(t[1]) /\ IsDigit(t[Len(t)])
    /\ \A i \in 1..Len(t) : IsDigit(t[i]) \/ t[i] = "_"
    /\ \A i \in 1..(Len(t) - 1) : ~(t[i] = "_" /\ t[i + 1] = "_")

\* int(c.get("score")) if c.get("score") is not None else None, None on an
\* exception (lines 101-104): <<n>> for the integer n, <<>> for None.
score_of(x) ==
    IF x = None THEN <<>>
    ELSE LET t == Strip(x)
             signed == t # <<>> /\ t[1] \in {"+", "-"}
             body == IF signed THEN Tail(t) ELSE t
         IN IF ~IsDigitString(body) THEN <<>>
            ELSE IF signed /\ t[1] = "-" THEN <<0 - DigitsValue(body, 1, 0)>>
            ELSE <<DigitsValue(body, 1, 0)>>

Home == <<"h","o","m","e">>
Away == <<"a","w","a","y">>

RECURSIVE FillSides(_, _)
\* The loop over the competitors (lines 98-111): rec with the keys it set.
FillSides(cs, rec) ==
    IF cs = <<>> THEN rec
    ELSE LET c == Head(cs)
             team_name == clean(c.displayName)
             score == score_of(c.score)
         IN IF c.homeAway = Home
            THEN FillSides(Tail(cs), [k \in DOMAIN rec \cup {"home_team", "home_score"} |->
                     IF k = "home_team" THEN team_name
                     ELSE IF k = "home_score" THEN score ELSE rec[k]])
            ELSE IF c.homeAway = Away
            THEN FillSides(Tail(cs), [k \in DOMAIN rec \cup {"away_team", "away_score"} |->
                     IF k = "away_team" THEN team_name
                     ELSE IF k = "away_score" THEN score ELSE rec[k]])
            ELSE FillSides(Tail(cs), rec)

\* Mutant: every game counts as completed.
AlwaysCompleted(comp) == TRUE

\* bool(safe_get(comp, ["status", "type", "completed"], False))
Completed(comp) == comp.completed

\* The game one event yields, as a sequence of none or one (lines 80-118).
GamesOfEvent(ev) ==
    IF ev.competitions = <<>> THEN <<>>
    ELSE LET comp == ev.competitions[1]
         IN IF ~Completed(comp) THEN <<>>
            ELSE IF Len(comp.competitors) # 2 THEN <<>>
            ELSE LET rec == FillSides(comp.competitors,
                                [is_neutral |-> comp.neutralSite,
                                 location |-> combine_location(comp.venue)])
                 IN IF \E k \in {"home_team", "away_team", "home_score", "away_score"} :
                          k \notin DOMAIN rec
                    THEN <<>>
                    ELSE IF rec.home_score = <<>> \/ rec.away_score = <<>> THEN <<>>
                    ELSE << [rec EXCEPT !.home_score = @[1], !.away_score = @[1]] >>

\* One turn of the generator's loop over the events.
ParseEvent ==
    /\ ppc = "parse"
    /\ idx <= Len(events)
    /\ games' = games \o GamesOfEvent(events[idx])
    /\ idx' = idx + 1
    /\ UNCHANGED <<events, rows, ppc>>

\* Mutant: a tie counts as a home win.
home_win_or_tie(g) == g.home_score >= g.away_score

\* home_win = g["home_score"] > g["away_score"]
home_win(g) == g.home_score > g.away_score

\* The row build_rows appends for the game g.
RowOf(g) ==
    [winner_team |-> IF home_win(g) THEN g.home_team ELSE g.away_team,
     winner_score |-> Max(g.home_score, g.away_score),
     loser_team |-> IF home_win(g) THEN g.away_team ELSE g.home_team,
     loser_score |-> Min(g.home_score, g.away_score),
     location |-> g.location,
     site_designation |-> IF g.is_neutral THEN "N"
                          ELSE IF home_win(g) THEN "H" ELSE "A"]

RECURSIVE RowsFrom(_, _)
RowsFrom(gs, i) == IF i > Len(gs) THEN <<>> ELSE <<RowOf(gs[i])>> \o RowsFrom(gs, i + 1)

\* build_rows(games), once the generator is exhausted.
BuildRows ==
    /\ ppc = "parse"
    /\ idx > Len(events)
    /\ rows' = RowsFrom(games, 1)
    /\ ppc' = "built"
    /\ UNCHANGED <<events, idx, games>>

Competitor(side, name, score) == [homeAway |-> side, displayName |-> name, score |-> score]

NoVenue == [fullName |-> None, city |-> None, state |-> None]

Arena == [fullName |-> <<"G","y","m">>, city |-> <<" ","R","y","e">>, state |-> <<"N","Y">>]

Town == [fullName |-> <<"n","a","n">>, city |-> <<"R","y","e">>, state |-> None]

Event(completed, neutral, venue, cs) ==
    [competitions |-> << [completed |-> completed, neutralSite |-> neutral,
                          venue |-> venue, competitors |-> cs] >>]

Duke == <<"D","u","k","e">>
Army == <<"A","r","m","y">>

\* A completed game of Duke at home against Army with the scores given.
Played(neutral, hs, as) ==
    Event(TRUE, neutral, Arena, <<Competitor(Home, Duke, hs), Competitor(Away, Army, as)>>)

\* The same, its competitors flagged as given.
Flagged(hside, aside) ==
    Event(TRUE, FALSE, NoVenue,
          <<Competitor(hside, Duke, <<"8","0">>), Competitor(aside, Army, <<"6","0">>)>>)

\* The raw events a scoreboard may list.
RawEventPalette ==
    { Played(n, sc[1], sc[2]) :
        n \in BOOLEAN,
        sc \in { << <<"8","0">>, <<"6","0">> >>, << <<"6","0">>, <<"8","0">> >>,
                 << <<"6","0">>, <<"6","0">> >> } }
    \cup { Flagged(h, a) : h \in {Home, Away, None}, a \in {Home, Away, None} }
    \cup { Played(FALSE, sc[1], sc[2]) :
             sc \in { << None, <<"6","0">> >>, << <<"8","0">>, <<"6","x">> >>,
                      << <<" ","8","0"," ">>, <<"+","7">> >>, << <<"8",".","5">>, <<"6","0">> >>,
                      << <<>>, <<"6","0">> >>, << <<"-","5">>, <<"1","_","0">> >>,
                      << <<"6","0">>, <<"_","6">> >> } }
    \cup { [competitions |-> <<>>],
           Event(FALSE, FALSE, Arena, <<Competitor(Home, Duke, <<"8","0">>),
                                        Competitor(Away, Army, <<"6","0">>)>>),
           Event(TRUE, FALSE, Arena, <<Competitor(Home, Duke, <<"8","0">>)>>),
           Event(TRUE, FALSE, Arena, <<Competitor(Home, Duke, <<"8","0">>),
                                       Competitor(Away, Army, <<"6","0">>),
                                       Competitor(Away, Army, <<"6","0">>)>>),
           Event(TRUE, TRUE, Town, <<Competitor(Away, <<" ","A","r","m","y">>, <<"6","0">>),
                                     Competitor(Home, <<"N","o","n","e">>, <<"6","0">>)>>) }

ParseEntry ==
    /\ events \in SeqsUpTo(RawEventPalette, MaxEvents)
    /\ idx = 1
    /\ games = <<>>
    /\ rows = <<>>
    /\ ppc = "parse"

ParseNext ==
    \/ ParseEvent /\ UNCHANGED <<sheetVars, fetchVars>>
    \/ BuildRows /\ UNCHANGED <<sheetVars, fetchVars>>

ParseInit == SheetIdle /\ FetchIdle /\ ParseEntry

\* games = list(parse_completed_games(sb)); rows = build_rows(games)
ParseSpec == ParseInit /\ [][ParseNext]_vars

----------------------------------------------------------------------------
(* What the specification says of a cell, stated without the code's        *)
(* strip()/lower().                                                        *)

\* The number of leading blanks of s.
LeadingBlanks(s) ==
    CHOOSE a \in 0..Len(s) :
        /\ \A i \in 1..a : s[i] = " "
        /\ a = Len(s) \/ s[a + 1] # " "

\* The number of trailing blanks of s.
TrailingBlanks(s) ==
    CHOOSE b \in 0..Len(s) :
        /\ \A i \in (Len(s) - b + 1)..Len(s) : s[i] = " "
        /\ b = Len(s) \/ s[Len(s) - b] # " "

\* The text of s between its leading and trailing blanks.
Core(s) ==
    IF LeadingBlanks(s) = Len(s) THEN <<>>
    ELSE SubSeq(s, LeadingBlanks(s) + 1, Len(s) - TrailingBlanks(s))

UpperChar(c) ==
    CASE c = "n" -> "N" [] c = "a" -> "A" [] c = "u" -> "U" [] c = "l" -> "L"
      [] c = "o" -> "O" [] c = "e" -> "E" [] OTHER -> c

\* t is the word w in some letter case.
SameWord(t, w) ==
    /\ Len(t) = Len(w)
    /\ \A i \in 1..Len(w) : t[i] \in {w[i], UpperChar(w[i])}

\* A cell that counts as empty: blanks only, or nan / none / null in any case.
CountsAsEmpty(s) == Core(s) = <<>> \/ \E w \in NullWords : SameWord(Core(s), w)

Normalized(s) == IF CountsAsEmpty(s) THEN <<>> ELSE Core(s)

\* The six normalized values of a row: its fingerprint.
Fingerprint(row) == [k \in 1..NCols |-> Normalized(row[k])]

\* The greatest row whose column-A cell does not count as empty, or 0.
LastRow(sh) ==
    LET S == {r \in 1..GridRows : ~CountsAsEmpty(sh[r][1])}
    IN IF S = {} THEN 0 ELSE CHOOSE r \in S : \A q \in S : q <= r

\* The lookback K of the latest run (negative counts as 0).
CurK == IF lookback = <<>> THEN 0 ELSE Max(0, lookback[Len(lookback)])

\* Fingerprints of the rows max(1, L-K+1)..L of the tab.
WindowPrints(sh, K) ==
    LET L == LastRow(sh)
    IN {Fingerprint(sh[r]) : r \in Max(1, L - K + 1)..L}

\* The fingerprints of the incoming rows (their six required cells), in CSV order.
Incoming == LET sel == SelectCols(csv) IN [i \in 1..Len(sel) |-> Fingerprint(sel[i])]

RECURSIVE Without(_, _)
\* The members of sequence fs that are not in the set W, in order.
Without(fs, W) ==
    IF fs = <<>> THEN <<>>
    ELSE (IF Head(fs) \in W THEN <<>> ELSE <<Head(fs)>>) \o Without(Tail(fs), W)

\* The incoming rows whose fingerprint is not in the window, in order.
KeptRows(sh, K) == Without(Incoming, WindowPrints(sh, K))

\* The latest run of the append script got past its CSV checks.
AppendRan == script = "append" /\ pc = "done" /\ csv.rows # <<>>

\* The update calls run n has issued.
UpdatesOf(n) == {i \in 1..Len(calls) : calls[i].op = "update" /\ calls[i].run = n}

----------------------------------------------------------------------------
(* Claims about the sheet scripts.                                         *)

\* C1: an incoming row is dropped iff its fingerprint equals that of some row
\* in rows max(1, L-K+1)..L of the tab; incoming rows are never compared with
\* each other; with L = 0 or K = 0 nothing is dropped.
C1_DedupeWindow ==
    AppendRan =>
        LET kept == KeptRows(sheet0, CurK)
        IN /\ csv_rows = kept
           /\ dupes = Len(csv.rows) - Len(kept)
           /\ (LastRow(sheet0) = 0 \/ CurK = 0) => dupes = 0

\* C1 witness: lookback 1 over a tab whose last row is 2: an incoming row equal
\* to row 2 is dropped and one equal to row 1 only is kept.
C1_Witness ==
    /\ AppendRan
    /\ CurK = 1 /\ last_a = 2
    /\ dupes = 1 /\ Len(csv_rows) = 1
    /\ csv_rows[1] = Fingerprint(sheet0[1])

\* Cell (r, c) lies in the block A(L+1):F(L+n).
InBlock(L, n, r, c) == r > L /\ r <= L + n /\ c <= NCols

\* The latest append run issued exactly the write of A(L+1):F(L+n), or none
\* when n = 0.
WritesOnlyBlock(L, n) ==
    IF n = 0 THEN UpdatesOf(run) = {}
    ELSE /\ Cardinality(UpdatesOf(run)) = 1
         /\ \A i \in UpdatesOf(run) :
               calls[i].r1 = L + 1 /\ calls[i].r2 = L + n /\ calls[i].c2 = NCols

\* C2 as claimed: the append writes only A(L+1):F(L+n), every other cell is
\* left unchanged, and no cell that held a non-empty value is changed.
C2_Claim ==
    AppendRan =>
        LET L == LastRow(sheet0)
            n == Len(KeptRows(sheet0, CurK))
        IN /\ WritesOnlyBlock(L, n)
           /\ \A r \in 1..GridRows : \A c \in 1..GridCols :
                 (~InBlock(L, n, r, c) \/ sheet0[r][c] # Blank)
                    => sheet[r][c] = sheet0[r][c]

\* C2 amended: the append writes only A(L+1):F(L+n); every cell outside that
\* block, so every cell of rows 1..L, is left unchanged; the cells of the block
\* take the kept rows' values whatever they held before.
C2_Frame ==
    AppendRan =>
        LET L == LastRow(sheet0)
            kept == KeptRows(sheet0, CurK)
        IN /\ WritesOnlyBlock(L, Len(kept))
           /\ \A r \in 1..GridRows : \A c \in 1..GridCols :
                 IF InBlock(L, Len(kept), r, c)
                 THEN sheet[r][c] = kept[r - L][c]
                 ELSE sheet[r][c] = sheet0[r][c]

\* C2 witness: a run wrote its block under row L >= 1, over a row that held
\* values in B-F.
C2_Witness ==
    /\ AppendRan /\ UpdatesOf(run) # {}
    /\ last_a >= 1
    /\ \E r \in (last_a + 1)..(last_a + Len(csv_rows)) : \E c \in 2..NCols :
          sheet0[r][c] # Blank /\ sheet[r][c] # sheet0[r][c]

\* C3: the locator returns the greatest row of column A that does not count as
\* empty (0 when there is none), also when an empty cell lies above it, and the
\* write starts at that row + 1.
C3_Locator ==
    AppendRan =>
        LET L == LastRow(sheet0)
        IN /\ last_a = L
           /\ \A i \in UpdatesOf(run) : calls[i].r1 = L + 1

\* C3 witness: column A holds a value, below it a cell that counts as empty,
\* below that a value; the locator returns the deeper row and the write
\* starts under it.
C3_Witness ==
    /\ AppendRan /\ UpdatesOf(run) # {}
    /\ \E r \in 1..GridRows : \E q \in 1..GridRows :
          /\ q < r /\ r < last_a
          /\ ~CountsAsEmpty(sheet0[q][1])
          /\ CountsAsEmpty(sheet0[r][1])

\* The tab a full-refresh overwrite is to leave: header in row 1, the N data
\* rows in rows 2..N+1, every other cell blank.
RefreshedTab ==
    [r \in 1..GridRows |-> [c \in 1..GridCols |->
        IF c > Len(csv.columns) \/ r > Len(csv.rows) + 1 THEN Blank
        ELSE IF r = 1 THEN HeaderCell(csv.columns[c])
        ELSE Normalized(csv.rows[r - 1][c])]]

OverwriteRan == script = "overwrite" /\ pc = "done"

\* Some cell still holds what it held before the overwrite, where the new
\* content has nothing.
StaleCell(fresh) ==
    \E r \in 1..GridRows : \E c \in 1..GridCols :
        sheet[r][c] # Blank /\ sheet[r][c] = sheet0[r][c] /\ fresh[r][c] = Blank

\* C8 as claimed: after an overwrite with N data rows and clear-below C, rows
\* 1..N hold fresh content, rows N+1..N+C are blank, and nothing stale remains.
C8_Claim ==
    OverwriteRan =>
        LET N == Len(csv.rows)
            fresh == RefreshedTab
        IN /\ \A r \in 1..N : \A c \in 1..Len(csv.columns) : sheet[r][c] = fresh[r][c]
           /\ \A r \in (N + 1)..(N + clear_below) : \A c \in 1..GridCols : sheet[r][c] = Blank
           /\ ~StaleCell(fresh)

\* C8 amended: row 1 holds the header, rows 2..N+1 the N data rows, rows
\* N+2..N+1+C are blank, and no cell anywhere holds content from before.
C8_Refresh ==
    OverwriteRan =>
        LET fresh == RefreshedTab
        IN /\ sheet = fresh
           /\ \A r \in (Len(csv.rows) + 2)..(Len(csv.rows) + 1 + clear_below) :
                 \A c \in 1..GridCols : sheet[r][c] = Blank
           /\ ~StaleCell(fresh)

\* C8 witness: the tab held a row below the new content and its blanked rows,
\* and a column to the right of the new content.
C8_Witness ==
    /\ OverwriteRan
    /\ \E r \in (Len(csv.rows) + 2 + Max(clear_below, 0))..GridRows :
          \E c \in 1..GridCols : sheet0[r][c] # Blank
    /\ \E r \in 1..GridRows : \E c \in (Len(csv.columns) + 1)..GridCols :
          sheet0[r][c] # Blank

\* The CSV lacks one of the six required columns.
LacksColumn == MissingCols(csv.columns) # {}

\* C9 as claimed: in both scripts a run whose CSV lacks a required column ends
\* in a fatal error, and no remote call is made.
C9_Claim ==
    (LacksColumn /\ pc # "start") => (pc = "failed" /\ exit = <<"error">> /\ calls = <<>>)

\* C9 amended: in the append script, a run whose CSV lacks a required column
\* makes no remote call, and ends in a fatal error when the CSV has a data row
\* (a CSV without data rows ends the run normally, whatever its columns).
C9_AppendShape ==
    (script = "append" /\ LacksColumn /\ pc # "start") =>
        /\ calls = <<>> /\ sheet = sheet0
        /\ IF csv.rows # <<>>
           THEN pc = "failed" /\ exit = <<"error">>
           ELSE pc = "done" /\ \A i \in 1..Len(exit) : exit[i] = "ok"

\* C9 witness: an append run over a CSV with data rows and no site_designation
\* has failed.
C9_Witness ==
    /\ script = "append" /\ LacksColumn /\ csv.rows # <<>> /\ pc = "failed"

\* The dates of all CSV rows are non-empty (after normalization).
DatesNonEmpty ==
    LET inc == Incoming IN \A i \in 1..Len(inc) : inc[i][1] # Blank

\* The re-run found every row a duplicate, wrote nothing, left the tab as it was.
RerunIsNoop ==
    /\ dupes = Len(csv.rows)
    /\ UpdatesOf(2) = {}
    /\ sheet = sheet0

\* C10 as claimed: after one append of the n CSV rows, a second run with the
\* same CSV and a lookback K >= n finds all n rows duplicates and writes nothing.
C10_Claim ==
    (AppendRan /\ run = 2 /\ DatesNonEmpty /\ CurK >= Len(csv.rows)) => RerunIsNoop

\* C10 amended: the same, when the first run wrote all n rows (it dropped none
\* as a duplicate).
C10_Rerun ==
    (/\ AppendRan /\ run = 2 /\ DatesNonEmpty /\ CurK >= Len(csv.rows)
     /\ \E i \in UpdatesOf(1) : calls[i].r2 - calls[i].r1 + 1 = Len(csv.rows))
    => RerunIsNoop

\* C10 witness: the first run wrote two rows, the re-run found both duplicates.
C10_Witness ==
    /\ AppendRan /\ run = 2 /\ DatesNonEmpty /\ CurK = 2 /\ Len(csv.rows) = 2
    /\ \E i \in UpdatesOf(1) : calls[i].r2 - calls[i].r1 + 1 = 2
    /\ dupes = 2

----------------------------------------------------------------------------
(* The extractor and the row builder.                                      *)

Parsed == ppc = "built"

\* The display name of a competitor, as the extractor records it.
TeamName(c) == IF c.displayName = None THEN <<>> ELSE Normalized(c.displayName)

ParsesAsInteger(x) == score_of(x) # <<>>

IsHome(c) == c.homeAway = Home

\* The competitors of a completed two-sided event.
TwoSided(ev) ==
    /\ ev.competitions # <<>>
    /\ ev.competitions[1].completed
    /\ Len(ev.competitions[1].competitors) = 2

BothScoresParse(ev) ==
    \A i \in 1..2 : ParsesAsInteger(ev.competitions[1].competitors[i].score)

\* An event the extractor is claimed to emit: the home flag on exactly one.
ClaimedKept(ev) ==
    /\ TwoSided(ev)
    /\ IsHome(ev.competitions[1].competitors[1]) # IsHome(ev.competitions[1].competitors[2])
    /\ BothScoresParse(ev)

\* An event the extractor emits: one flagged home, the other flagged away.
Kept(ev) ==
    /\ TwoSided(ev)
    /\ \E i \in 1..2 :
          /\ ev.competitions[1].competitors[i].homeAway = Home
          /\ ev.competitions[1].competitors[3 - i].homeAway = Away
    /\ BothScoresParse(ev)

\* The sides of the game of a kept event: the home-flagged competitor is the
\* home side, the other competitor the away side.
SidesOf(ev) ==
    LET cs == ev.competitions[1].competitors
        h == IF IsHome(cs[1]) THEN 1 ELSE 2
    IN [home_team |-> TeamName(cs[h]), home_score |-> score_of(cs[h].score)[1],
        away_team |-> TeamName(cs[3 - h]), away_score |-> score_of(cs[3 - h].score)[1]]

Sides(g) ==
    [home_team |-> g.home_team, home_score |-> g.home_score,
     away_team |-> g.away_team, away_score |-> g.away_score]

\* The games are those of the events kept, in order.
GamesAre(kept) ==
    /\ Len(games) = Len(kept)
    /\ \A i \in 1..Len(kept) : Sides(games[i]) = SidesOf(kept[i])

\* C6 as claimed: the extractor excludes each event not completed, not of
\* exactly two competitors, without the home flag on exactly one of the two,
\* or with a score that is no integer, and emits a game for every other event.
C6_Claim == Parsed => GamesAre(SelectSeq(events, ClaimedKept))

\* C6 amended: the extractor excludes each event not completed, not of exactly
\* two competitors, without one competitor flagged home and the other flagged
\* away, or with a score that is no integer; it emits a game for every other
\* event, the home-flagged competitor supplying home_team/home_score and the
\* other away_team/away_score.
C6_Extract == Parsed => GamesAre(SelectSeq(events, Kept))

\* C6 witness: of two events the first, with one competitor flagged home and
\* the other unflagged, was excluded, and the second, its away side listed
\* first, gave a game.
C6_Witness ==
    /\ Parsed /\ Len(events) = 2 /\ Len(games) = 1
    /\ events[1] = Flagged(Home, None)
    /\ IsHome(events[2].competitions[1].competitors[2])
    /\ games[1].away_team = Army

\* C7: build_rows emits one row a game; the winner is the competitor with the
\* strictly greater score and the loser the other, their scores their own,
\* winner_score >= loser_score; the site is N at a neutral site, else H if
\* the home competitor is the winner, else A.
C7_Rows ==
    Parsed =>
        /\ Len(rows) = Len(games)
        /\ \A i \in 1..Len(games) :
              LET g == games[i]
                  r == rows[i]
                  home == <<g.home_team, g.home_score>>
                  away == <<g.away_team, g.away_score>>
                  winner == <<r.winner_team, r.winner_score>>
                  loser == <<r.loser_team, r.loser_score>>
              IN /\ g.home_score > g.away_score => winner = home /\ loser = away
                 /\ g.away_score > g.home_score => winner = away /\ loser = home
                 /\ <<winner, loser>> \in {<<home, away>>, <<away, home>>}
                 /\ r.winner_score >= r.loser_score
                 /\ r.site_designation =
                       IF g.is_neutral THEN "N"
                       ELSE IF g.home_score > g.away_score THEN "H" ELSE "A"

\* C7 witness: home Duke 80, away Army 60, not neutral gave Duke/80/Army/60/H,
\* and a tie away from a neutral site gave a row too.
C7_Witness ==
    /\ Parsed /\ Len(rows) = 2
    /\ games[1].home_score = games[1].away_score /\ ~games[1].is_neutral
    /\ rows[2].winner_team = Duke /\ rows[2].winner_score = 80
    /\ rows[2].loser_team = Army /\ rows[2].loser_score = 60
    /\ rows[2].site_designation = "H"

====
